---- MODULE Spec2Model ----
(***************************************************************************)
(* Interactive sales dashboard (src/31.py, src/3.py).                      *)
(*                                                                         *)
(* The dashboard is a Streamlit script: every user interaction re-executes *)
(* the whole script top to bottom.  The script loads a table (cached),     *)
(* reads the sidebar widgets, filters the table, and renders KPIs, grouped *)
(* charts, a top-N ranking, a correlation heatmap and a table/export.      *)
(*                                                                         *)
(* Encoding of values                                                      *)
(*   calendar date  : the integer yyyymmdd            (datetime.date)      *)
(*   timestamp      : yyyymmdd * 100 + hh             (pandas Timestamp)   *)
(*   month period   : the integer yyyymm              (pandas Period[M])   *)
(*   float          : [nan, num, den], an exact rational or NaN            *)
(*   data frame     : [columns, rows]; a row is a function column -> value *)
(*   object heap    : a sequence of frames; a Python name holds an index   *)
(***************************************************************************)
EXTENDS Integers, Sequences, FiniteSets, TLC

\* ------------------------------------------------------------ bounds
MaxRows == 3      \* rows of sales_data.csv considered
MaxTopN == 3      \* slider positions 1..MaxTopN explored (of 1..SliderMax)
MaxLoads == 2     \* executions of the body of load_data explored

\* ------------------------------------------------- program constants
SliderMin == 1
SliderMax == 10
SliderDefault == 5

Levels == <<"Region", "Country", "ProductCategory", "Product">>
TimeAggOptions == <<"Day", "Month">>
TimeAggDefaultIndex == 1
CorrColumns == <<"UnitsSold", "UnitPrice", "TotalSales">>
CsvColumns ==
  <<"Date", "Region", "Country", "ProductCategory", "Product",
    "UnitsSold", "UnitPrice", "TotalSales">>

\* --------------------------------------------------------- utilities
Min(a, b) == IF a <= b THEN a ELSE b
Range(s) == {s[i] : i \in DOMAIN s}

\* Python's str ordering (code point order) on the names that occur.
LexOrder ==
  <<"Atlas", "Books", "Car", "DE", "Doll", "EU", "Toys", "US", "USA">>
LexRank(s) == CHOOSE i \in DOMAIN LexOrder : LexOrder[i] = s

\* The sort key pandas compares for a value of column col.
RankOf(col, v) == IF col \in {"Date", "Period"} THEN v ELSE LexRank(v)

\* ------------------------------------------------ dates and periods
\* pd.to_datetime(date): the timestamp at midnight of that day.
ToDatetime(d) == d * 100
\* Timestamp.date(), as st.date_input normalises its default value.
DateOf(ts) == ts \div 100
\* Series.dt.to_period("M")
ToPeriodM(ts) == ts \div 10000
\* PeriodIndex.to_timestamp(): start of the period, at midnight.
PeriodToTimestamp(p) == (p * 100 + 1) * 100

\* ------------------------------------------------------------ floats
Float(n) == [nan |-> FALSE, num |-> n, den |-> 1]
NaN == [nan |-> TRUE, num |-> 0, den |-> 1]

\* format(x, ",.<decimals>f"): the text "nan" for NaN, else the value
\* rounded to that many decimals (kept as the scaled integer).
Pow10(k) == IF k = 0 THEN 1 ELSE IF k = 1 THEN 10 ELSE 100
FormatFixed(x, decimals) ==
  IF x.nan
    THEN [text |-> "nan", scaled |-> 0, decimals |-> decimals]
    ELSE [text |-> "digits",
          scaled |-> (2 * x.num * Pow10(decimals) + x.den) \div (2 * x.den),
          decimals |-> decimals]
\* format(n, ",") of an int
FormatInt(n) == [text |-> "digits", scaled |-> n, decimals |-> 0]

\* ------------------------------------------------------------ series
\* df[col]
Col(frame, col) == [i \in 1..Len(frame.rows) |-> frame.rows[i][col]]

\* Mutant of IsIn: an empty selection is read as "no restriction".
IsInOrAll(series, values) ==
  [i \in DOMAIN series |-> values = {} \/ series[i] \in values]

\* Series.isin(values)
IsIn(series, values) == [i \in DOMAIN series |-> series[i] \in values]

\* Mutant of Between: the right end is excluded (inclusive="left").
BetweenLeftInclusive(series, left, right) ==
  [i \in DOMAIN series |-> left <= series[i] /\ series[i] < right]

\* Series.between(left, right), inclusive="both"
Between(series, left, right) ==
  [i \in DOMAIN series |-> left <= series[i] /\ series[i] <= right]

\* mask & mask
MaskAnd(a, b) == [i \in DOMAIN a |-> a[i] /\ b[i]]

RECURSIVE SelectRows(_, _)
SelectRows(rows, mask) ==
  IF rows = <<>> THEN <<>>
  ELSE LET rest == SelectRows(Tail(rows), Tail(mask))
       IN IF Head(mask) THEN <<Head(rows)>> \o rest ELSE rest

\* df[mask]: a new frame holding the rows whose mask entry is True.
BoolIndex(frame, mask) ==
  [columns |-> frame.columns, rows |-> SelectRows(frame.rows, mask)]

RECURSIVE SeqSum(_)
SeqSum(s) == IF s = <<>> THEN 0 ELSE Head(s) + SeqSum(Tail(s))

\* Series.sum(): 0 for an empty series.
SeriesSum(series) == SeqSum(series)

\* Series.mean(): NaN for an empty series.
SeriesMean(series) ==
  IF Len(series) = 0 THEN NaN
  ELSE [nan |-> FALSE, num |-> SeqSum(series), den |-> Len(series)]

\* ----------------------------------------------------------- groupby
\* Mutant of GroupKeys: the keys in order of first appearance (sort=False).
GroupKeysUnsorted(frame, col) ==
  LET series == Col(frame, col)
      S == Range(series)
      First(k) == CHOOSE i \in DOMAIN series :
                    series[i] = k /\ \A j \in 1..(i - 1) : series[j] # k
  IN [n \in 1..Cardinality(S) |->
        CHOOSE k \in S : Cardinality({x \in S : First(x) < First(k)}) = n - 1]

\* Mutant of GroupTotal: the first value of the group instead of the sum
\* (.first() for .sum()).
GroupTotalFirst(rows, col, k) ==
  LET i == CHOOSE x \in 1..Len(rows) :
             rows[x][col] = k /\ \A j \in 1..(x - 1) : rows[j][col] # k
  IN rows[i]["TotalSales"]

RECURSIVE SortAscending(_, _)
SortAscending(S, col) ==
  IF S = {} THEN <<>>
  ELSE LET m == CHOOSE x \in S : \A y \in S : RankOf(col, x) <= RankOf(col, y)
       IN <<m>> \o SortAscending(S \ {m}, col)

\* The group keys of groupby(col): sort=True, ascending key order.
GroupKeys(frame, col) == SortAscending(Range(Col(frame, col)), col)

RECURSIVE GroupTotal(_, _, _)
GroupTotal(rows, col, k) ==
  IF rows = <<>> THEN 0
  ELSE (IF Head(rows)[col] = k THEN Head(rows)["TotalSales"] ELSE 0)
       + GroupTotal(Tail(rows), col, k)

\* df.groupby(col)["TotalSales"].sum(): one (key, sum) pair per key.
GroupBySum(frame, col) ==
  LET keys == GroupKeys(frame, col)
  IN [i \in 1..Len(keys) |->
        [key |-> keys[i], TotalSales |-> GroupTotal(frame.rows, col, keys[i])]]

\* ------------------------------------------------------------ ranker
IndexPermutations(n) ==
  {p \in [1..n -> 1..n] : \A i, j \in 1..n : i # j => p[i] # p[j]}

\* Mutant of SortValuesDescending: ascending=False left out.
SortValuesAscending(series) ==
  {[i \in 1..Len(series) |-> series[p[i]]] :
     p \in {q \in IndexPermutations(Len(series)) :
              \A i \in 1..(Len(series) - 1) :
                 series[q[i]].TotalSales <= series[q[i + 1]].TotalSales}}

\* Series.sort_values(ascending=False), kind="quicksort": the values in
\* non-increasing order.  The sort is not stable, so the order among equal
\* values is whatever the numpy build produces: every such order is possible.
SortValuesDescending(series) ==
  {[i \in 1..Len(series) |-> series[p[i]]] :
     p \in {q \in IndexPermutations(Len(series)) :
              \A i \in 1..(Len(series) - 1) :
                 series[q[i]].TotalSales >= series[q[i + 1]].TotalSales}}

\* Series.head(n)
HeadN(series, n) == SubSeq(series, 1, Min(n, Len(series)))

\* -------------------------------------------------------- correlation
RECURSIVE DotSum(_, _)
DotSum(a, b) ==
  IF a = <<>> THEN 0 ELSE Head(a) * Head(b) + DotSum(Tail(a), Tail(b))

\* n^2 times the covariance of two columns.
Cov(a, b) == Len(a) * DotSum(a, b) - SeqSum(a) * SeqSum(b)
Sign(x) == IF x > 0 THEN 1 ELSE IF x < 0 THEN 0 - 1 ELSE 0

\* One entry of DataFrame.corr() (Pearson, min_periods=1): NaN when fewer
\* than two observations or a column has no variance; else the coefficient,
\* of which the sign is kept, and exactly 1 on the diagonal.
CorrEntry(a, b) ==
  IF Len(a) < 2 \/ Cov(a, a) = 0 \/ Cov(b, b) = 0
    THEN [nan |-> TRUE, sign |-> 0, one |-> FALSE]
    ELSE [nan |-> FALSE, sign |-> Sign(Cov(a, b)), one |-> (a = b)]

\* df[cols].corr()
Corr(frame, cols) ==
  [a \in Range(cols) |-> [b \in Range(cols) |->
      CorrEntry(Col(frame, a), Col(frame, b))]]

\* ------------------------------------------------------- object heap
\* A new object holding frame: the heap grown by it, and its reference.
Alloc(h, frame) == [heap |-> Append(h, frame), ref |-> Len(h) + 1]

\* Mutant of Copy: no copy is made, the name is bound to the same object.
CopyAlias(h, ref) == [heap |-> h, ref |-> ref]

\* DataFrame.copy(): a new object with the same columns and rows.
Copy(h, ref) == Alloc(h, h[ref])

\* frame[col] = values, in place: the column is added (or overwritten) in
\* the object the reference names.
SetItem(h, ref, col, values) ==
  [h EXCEPT ![ref] =
     [columns |-> IF col \in Range(@.columns) THEN @.columns
                  ELSE Append(@.columns, col),
      rows |-> [i \in 1..Len(@.rows) |-> (col :> values[i]) @@ @.rows[i]]]]

\* ------------------------------------------------------ input domain
Row(date, region, country, category, product, units, price) ==
  [Date |-> date, Region |-> region, Country |-> country,
   ProductCategory |-> category, Product |-> product,
   UnitsSold |-> units, UnitPrice |-> price, TotalSales |-> units * price]

\* Lines of sales_data.csv the tables are built from.
RecordPool ==
  { Row(20240110, "US", "USA", "Toys", "Car", 2, 10),
    Row(20240215, "US", "USA", "Toys", "Doll", 1, 10),
    Row(20240220, "EU", "DE", "Books", "Atlas", 3, 5),
    Row(20240305, "EU", "DE", "Books", "Atlas", 4, 5) }

Tables == UNION {[1..n -> RecordPool] : n \in 0..MaxRows}

\* The table a browser session is explored on.
SessionTables ==
  { <<Row(20240110, "US", "USA", "Toys", "Car", 2, 10),
      Row(20240215, "US", "USA", "Toys", "Doll", 1, 10)>> }

RegionUniverse == {"US", "EU"}
CountryUniverse == {"USA", "DE"}
CategoryUniverse == {"Toys", "Books"}
\* Days the date picker is clicked on.
DatePicks == {20240215, 20240220}
TopNPicks == SliderMin..Min(MaxTopN, SliderMax)

\* ------------------------------------------------------------- state
VARIABLES
  source,       \* the lines of sales_data.csv
  cache,        \* st.cache_data's entry for load_data: <<>> or <<frame>>
  loadCount,    \* times the body of load_data has run
  regions, countries, categories,   \* multiselect values
  date_range,   \* date_input value: a tuple of dates
  level, time_agg, agg_dim, top_n,  \* radio, selectboxes, slider
  heap,         \* the frames alive at the end of the last execution
  df, df_filtered, df_time,         \* the script's names (0: unbound)
  status,       \* "init", "ok", or the exception that ended the execution
  page          \* what the last execution rendered: element -> content

vars ==
  <<source, cache, loadCount, regions, countries, categories, date_range,
    level, time_agg, agg_dim, top_n, heap, df, df_filtered, df_time,
    status, page>>

Tabs == {"tab1", "tab2", "tab3", "tab4", "tab5"}

\* pd.read_csv("sales_data.csv", parse_dates=["Date"])
ReadCsv(lines) ==
  [columns |-> CsvColumns,
   rows |-> [i \in 1..Len(lines) |->
               [lines[i] EXCEPT !["Date"] = ToDatetime(@)]]]

\* What st.cache_data holds for load_data() when it is called.
CacheLookup(c) == c

\* df[col].unique(), as the option set of a multiselect
Unique(frame, col) == Range(Col(frame, col))

\* [df["Date"].min(), df["Date"].max()] as date_input shows it
DefaultDateRange(frame) ==
  LET dates == Range(Col(frame, "Date"))
  IN <<DateOf(CHOOSE x \in dates : \A y \in dates : x <= y),
       DateOf(CHOOSE x \in dates : \A y \in dates : x >= y)>>

\* Lines 28-33: the conjunction of the four masks, then df[mask].
Filter(frame, rg, co, ca, start_date, end_date) ==
  BoolIndex(frame,
    MaskAnd(MaskAnd(MaskAnd(IsIn(Col(frame, "Region"), rg),
                            IsIn(Col(frame, "Country"), co)),
                    IsIn(Col(frame, "ProductCategory"), ca)),
            Between(Col(frame, "Date"), start_date, end_date)))

\* Lines 35-43: the three metrics as displayed.
Kpis(frame) ==
  [total_sales |-> FormatFixed(Float(SeriesSum(Col(frame, "TotalSales"))), 0),
   total_units |-> FormatInt(SeriesSum(Col(frame, "UnitsSold"))),
   avg_price |-> FormatFixed(SeriesMean(Col(frame, "UnitPrice")), 2)]

\* Lines 72-75: the Period column of df_time.
PeriodColumn(frame, ta) ==
  IF ta = "Month"
    THEN [i \in 1..Len(frame.rows) |->
            PeriodToTimestamp(ToPeriodM(frame.rows[i]["Date"]))]
    ELSE Col(frame, "Date")

\* Lines 105-106: the rankings the sort can produce.
TopProducts(frame, n) ==
  {HeadN(s, n) : s \in SortValuesDescending(GroupBySum(frame, "Product"))}

\* df_filtered.to_csv(index=False)
ToCsv(frame) ==
  [header |-> frame.columns,
   lines |-> [i \in 1..Len(frame.rows) |->
                [j \in 1..Len(frame.columns) |->
                   LET c == frame.columns[j]
                   IN IF c = "Date" THEN DateOf(frame.rows[i][c])
                      ELSE frame.rows[i][c]]]]

\* What the executed blocks hand to Streamlit.  before, timed and after
\* are the frames df_filtered names up to line 62, df_time names at line
\* 78, and df_filtered names from line 91 on.
Render(shown, before, timed, after, lv, ad, top_products) ==
  [e \in shown |->
     CASE e = "kpi" -> Kpis(before)
       [] e = "fig" -> GroupBySum(before, lv)
       [] e = "fig2" -> GroupBySum(timed, "Period")
       [] e = "fig3" -> GroupBySum(after, ad)
       [] e = "top_products" -> top_products
       [] e = "corr" -> Corr(after, CorrColumns)
       [] e = "fig_map" ->
            [locations |-> Col(after, "Country"),
             color |-> Col(after, "TotalSales")]
       [] e = "dataframe" -> after
       [] e = "download" -> ToCsv(after)]

\* ---------------------------------------------------- one execution
\* The script, executed with the given widget values.  tabs names the
\* "with tab" blocks that are executed: all five in the script itself.
Execute(rg, co, ca, dr, lv, ta, ad, tn, tabs) ==
  LET hit == CacheLookup(cache)
      stored == IF hit = <<>> THEN <<ReadCsv(source)>> ELSE hit
      \* line 12: st.cache_data hands out a copy of the stored value
      a0 == Alloc(<<>>, stored[1])
      ranged == Len(dr) >= 2
      \* lines 25-33
      a1 == Alloc(a0.heap,
                  Filter(a0.heap[a0.ref], rg, co, ca,
                         ToDatetime(dr[1]), ToDatetime(dr[2])))
      \* lines 71-75
      a2 == Copy(a1.heap, a1.ref)
      h2 == SetItem(a2.heap, a2.ref, "Period",
                    PeriodColumn(a2.heap[a2.ref], ta))
      trends == "tab2" \in tabs
      hEnd == IF trends THEN h2 ELSE a1.heap
      shown ==
        {"kpi"}
        \cup (IF "tab1" \in tabs THEN {"fig"} ELSE {})
        \cup (IF trends THEN {"fig2"} ELSE {})
        \cup (IF "tab3" \in tabs THEN {"fig3"} ELSE {})
        \cup (IF "tab4" \in tabs THEN {"top_products", "corr", "fig_map"} ELSE {})
        \cup (IF "tab5" \in tabs THEN {"dataframe", "download"} ELSE {})
  IN /\ (hit = <<>> => loadCount < MaxLoads)
     /\ cache' = stored
     /\ loadCount' = IF hit = <<>> THEN loadCount + 1 ELSE loadCount
     /\ source' = source
     /\ regions' = rg /\ countries' = co /\ categories' = ca
     /\ date_range' = dr
     /\ df' = a0.ref
     /\ IF ~ranged
          THEN \* line 26 raises IndexError; nothing below it is executed,
               \* so the widgets below it are dropped with their state.
               /\ status' = "IndexError"
               /\ heap' = a0.heap
               /\ df_filtered' = 0 /\ df_time' = 0
               /\ level' = Levels[1]
               /\ time_agg' = TimeAggOptions[TimeAggDefaultIndex + 1]
               /\ agg_dim' = Levels[1]
               /\ top_n' = SliderDefault
               /\ page' = [e \in {} |-> 0]
          ELSE /\ status' = "ok"
               /\ heap' = hEnd
               /\ df_filtered' = a1.ref
               /\ df_time' = IF trends THEN a2.ref ELSE 0
               /\ level' = lv /\ time_agg' = ta /\ agg_dim' = ad /\ top_n' = tn
               /\ \E top_products \in
                       (IF "tab4" \in tabs
                          THEN TopProducts(hEnd[a1.ref], tn) ELSE {<<>>}) :
                    page' = Render(shown, a1.heap[a1.ref], h2[a2.ref],
                                   hEnd[a1.ref], lv, ad, top_products)

Init ==
  /\ source \in SessionTables
  /\ cache = <<>>
  /\ loadCount = 0
  /\ regions = {} /\ countries = {} /\ categories = {}
  /\ date_range = <<>>
  /\ level = Levels[1]
  /\ time_agg = TimeAggOptions[TimeAggDefaultIndex + 1]
  /\ agg_dim = Levels[1]
  /\ top_n = SliderDefault
  /\ heap = <<>>
  /\ df = 0 /\ df_filtered = 0 /\ df_time = 0
  /\ status = "init"
  /\ page = [e \in {} |-> 0]

\* ------------------------------------------------- browser session
Rerun(rg, co, ca, dr, lv, ta, ad, tn) ==
  Execute(rg, co, ca, dr, lv, ta, ad, tn, Tabs)

Toggle(S, v) == IF v \in S THEN S \ {v} ELSE S \cup {v}

\* The page is opened: every widget shows its default.
Open ==
  /\ status = "init"
  /\ LET frame == ReadCsv(source)
     IN Rerun(Unique(frame, "Region"), Unique(frame, "Country"),
              Unique(frame, "ProductCategory"), DefaultDateRange(frame),
              level, time_agg, agg_dim, top_n)

SelectRegions ==
  /\ status # "init"
  /\ \E v \in Unique(heap[df], "Region") :
       Rerun(Toggle(regions, v), countries, categories, date_range,
             level, time_agg, agg_dim, top_n)

SelectCountries ==
  /\ status # "init"
  /\ \E v \in Unique(heap[df], "Country") :
       Rerun(regions, Toggle(countries, v), categories, date_range,
             level, time_agg, agg_dim, top_n)

SelectCategories ==
  /\ status # "init"
  /\ \E v \in Unique(heap[df], "ProductCategory") :
       Rerun(regions, countries, Toggle(categories, v), date_range,
             level, time_agg, agg_dim, top_n)

\* A click in the calendar starts a new range: only its first day is set.
PickStartDate ==
  /\ status # "init"
  /\ \E d \in DatePicks :
       Rerun(regions, countries, categories, <<d>>,
             level, time_agg, agg_dim, top_n)

\* The second click completes the range with a day not before the first.
PickEndDate ==
  /\ status # "init"
  /\ Len(date_range) = 1
  /\ \E d \in DatePicks :
       /\ d >= date_range[1]
       /\ Rerun(regions, countries, categories, <<date_range[1], d>>,
                level, time_agg, agg_dim, top_n)

SelectLevel ==
  /\ status = "ok"
  /\ \E v \in Range(Levels) :
       Rerun(regions, countries, categories, date_range,
             v, time_agg, agg_dim, top_n)

SelectTimeAgg ==
  /\ status = "ok"
  /\ \E v \in Range(TimeAggOptions) :
       Rerun(regions, countries, categories, date_range,
             level, v, agg_dim, top_n)

SelectAggDim ==
  /\ status = "ok"
  /\ \E v \in Range(Levels) :
       Rerun(regions, countries, categories, date_range,
             level, time_agg, v, top_n)

SlideTopN ==
  /\ status = "ok"
  /\ \E v \in TopNPicks :
       Rerun(regions, countries, categories, date_range,
             level, time_agg, agg_dim, v)

Next ==
  \/ Open
  \/ SelectRegions
  \/ SelectCountries
  \/ SelectCategories
  \/ PickStartDate
  \/ PickEndDate
  \/ SelectLevel
  \/ SelectTimeAgg
  \/ SelectAggDim
  \/ SlideTopN

Spec == Init /\ [][Next]_vars

\* ------------------------------------------- the pipeline on any input
\* The stages applied once to a drawn table with drawn widget values.
InitPipe ==
  /\ source \in Tables
  /\ cache = <<>>
  /\ loadCount = 0
  /\ regions = {} /\ countries = {} /\ categories = {}
  /\ date_range = <<>>
  /\ level = Levels[1]
  /\ time_agg = TimeAggOptions[TimeAggDefaultIndex + 1]
  /\ agg_dim = Levels[1]
  /\ top_n = SliderDefault
  /\ heap = <<>>
  /\ df = 0 /\ df_filtered = 0 /\ df_time = 0
  /\ status = "init"
  /\ page = [e \in {} |-> 0]

\* A date range that holds every day of the pool.
WideRange == <<20240101, 20241231>>

\* The whole script under any filter selection, the views at their defaults.
ApplyFilter ==
  /\ status = "init"
  /\ \E rg \in SUBSET RegionUniverse, co \in SUBSET CountryUniverse,
        ca \in SUBSET CategoryUniverse, d1 \in DatePicks, d2 \in DatePicks :
       Execute(rg, co, ca, <<d1, d2>>, level, time_agg, agg_dim, top_n, Tabs)

\* One view of the unfiltered table: everything selected, any view setting.
DrillDown ==
  /\ status = "init"
  /\ \E v \in Range(Levels) :
       Execute(RegionUniverse, CountryUniverse, CategoryUniverse, WideRange,
               v, time_agg, agg_dim, top_n, {"tab1"})

Trends ==
  /\ status = "init"
  /\ \E v \in Range(TimeAggOptions) :
       Execute(RegionUniverse, CountryUniverse, CategoryUniverse, WideRange,
               level, v, agg_dim, top_n, {"tab2"})

Aggregations ==
  /\ status = "init"
  /\ \E v \in Range(Levels) :
       Execute(RegionUniverse, CountryUniverse, CategoryUniverse, WideRange,
               level, time_agg, v, top_n, {"tab3"})

Insights ==
  /\ status = "init"
  /\ \E v \in TopNPicks :
       Execute(RegionUniverse, CountryUniverse, CategoryUniverse, WideRange,
               level, time_agg, agg_dim, v, {"tab4"})

Data ==
  /\ status = "init"
  /\ Execute(RegionUniverse, CountryUniverse, CategoryUniverse, WideRange,
             level, time_agg, agg_dim, top_n, {"tab5"})

NextPipe ==
  \/ ApplyFilter
  \/ DrillDown
  \/ Trends
  \/ Aggregations
  \/ Insights
  \/ Data

PipeSpec == InitPipe /\ [][NextPipe]_vars

\* ============================================================ claims
Loaded == heap[df]
Filtered == heap[df_filtered]
Rendered(e) == e \in DOMAIN page

\* The calendar day of a record lies in the selected range, ends included.
InDateRange(r) ==
  date_range[1] <= DateOf(r["Date"]) /\ DateOf(r["Date"]) <= date_range[2]

\* The four-part predicate of the filter, on one record.
Selected(r) ==
  /\ r["Region"] \in regions
  /\ r["Country"] \in countries
  /\ r["ProductCategory"] \in categories
  /\ InDateRange(r)

\* The sum of TotalSales over the records of rows whose column col is k.
TotalOf(rows, col, k) ==
  LET idx == {i \in 1..Len(rows) : rows[i][col] = k}
      RECURSIVE Add(_)
      Add(S) == IF S = {} THEN 0
                ELSE LET i == CHOOSE x \in S : TRUE
                     IN rows[i]["TotalSales"] + Add(S \ {i})
  IN Add(idx)

\* The sum of the measure over all groups of an aggregation result.
GroupsTotal(result) == SeqSum([i \in 1..Len(result) |-> result[i].TotalSales])

\* C1: the filtered set is exactly the subsequence, in input order, of the
\* loaded records that satisfy all four conditions (date bounds inclusive),
\* and filtering it again with the same selection returns it unchanged.
C1_FilterIsExactSubsequence ==
  status = "ok" =>
    LET inp == Loaded.rows
        out == Filtered.rows
        keep == {i \in 1..Len(inp) : Selected(inp[i])}
        Nth(k) == CHOOSE i \in keep : Cardinality({j \in keep : j < i}) = k - 1
    IN /\ Len(out) = Cardinality(keep)
       /\ \A k \in 1..Len(out) : out[k] = inp[Nth(k)]
       /\ Filter([columns |-> CsvColumns, rows |-> out],
                 regions, countries, categories,
                 ToDatetime(date_range[1]), ToDatetime(date_range[2])).rows = out

\* C1 witness: a record dated on the last day of the range is kept while
\* another record is dropped.
C1_Witness ==
  /\ status = "ok"
  /\ Len(Filtered.rows) >= 1
  /\ Len(Filtered.rows) < Len(Loaded.rows)
  /\ \E i \in 1..Len(Filtered.rows) :
       DateOf(Filtered.rows[i]["Date"]) = date_range[2]
  /\ \E i \in 1..Len(Loaded.rows) : DateOf(Loaded.rows[i]["Date"]) > date_range[2]

EmptySelection ==
  \/ regions = {}
  \/ countries = {}
  \/ categories = {}
  \/ date_range[1] > date_range[2]

\* C2: with an empty selection set or an inverted date range the execution
\* ends without an exception, the filtered set is empty, and the grouped
\* charts, the time series and the top-N ranking are all empty.
C2_EmptySelectionYieldsEmptyResults ==
  (status # "init" /\ Len(date_range) = 2 /\ EmptySelection) =>
    /\ status = "ok"
    /\ Filtered.rows = <<>>
    /\ {"fig", "fig2", "fig3", "top_products"} \subseteq DOMAIN page
    /\ Len(page["fig"]) = 0
    /\ Len(page["fig2"]) = 0
    /\ Len(page["fig3"]) = 0
    /\ Len(page["top_products"]) = 0

\* C2 witness: an inverted date range over a table with records, every
\* selection set being full.
C2_Witness ==
  /\ status = "ok"
  /\ Len(date_range) = 2
  /\ date_range[1] > date_range[2]
  /\ regions = RegionUniverse /\ countries = CountryUniverse
  /\ categories = CategoryUniverse
  /\ Len(Loaded.rows) = MaxRows
  /\ Rendered("top_products")

\* C3: for every aggregation shown (by dimension, by period), the sums of
\* the groups add up to the total-sales KPI of the filtered records.
C3_AggregationConservesTotal ==
  status = "ok" =>
    LET total == page["kpi"].total_sales.scaled
    IN /\ total = SeqSum(Col(Filtered, "TotalSales"))
       /\ Rendered("fig") => GroupsTotal(page["fig"]) = total
       /\ Rendered("fig2") => GroupsTotal(page["fig2"]) = total
       /\ Rendered("fig3") => GroupsTotal(page["fig3"]) = total

\* C3 witness: a drill-down by product with two groups, one of them
\* holding more than one record.
C3_Witness ==
  /\ status = "ok"
  /\ Rendered("fig")
  /\ level = "Product"
  /\ Len(page["fig"]) = 2
  /\ Len(Filtered.rows) = 3

\* The start of the period a timestamp falls in.
PeriodStart(ts) ==
  IF time_agg = "Month" THEN ((DateOf(ts) \div 100) * 100 + 1) * 100 ELSE ts

\* C4: the time series holds one pair per distinct period start among the
\* filtered records, with the sum of that period, in strictly ascending
\* order of period start.
C4_TimeSeriesChronological ==
  (status = "ok" /\ Rendered("fig2")) =>
    LET series == page["fig2"]
        rows == Filtered.rows
        starts == {PeriodStart(rows[i]["Date"]) : i \in 1..Len(rows)}
    IN /\ {series[i].key : i \in 1..Len(series)} = starts
       /\ \A i \in 1..(Len(series) - 1) : series[i].key < series[i + 1].key
       /\ \A i \in 1..Len(series) :
            series[i].TotalSales =
              SeqSum([j \in 1..Len(rows) |->
                        IF PeriodStart(rows[j]["Date"]) = series[i].key
                          THEN rows[j]["TotalSales"] ELSE 0])

\* C4 witness: by month, three records of which two share a month, the
\* table not being in chronological order.
C4_Witness ==
  /\ status = "ok"
  /\ Rendered("fig2")
  /\ time_agg = "Month"
  /\ Len(Filtered.rows) = 3
  /\ Len(page["fig2"]) = 2
  /\ Filtered.rows[1]["Date"] > Filtered.rows[2]["Date"]

ProductsOf(rows) == {rows[i]["Product"] : i \in 1..Len(rows)}

\* C5: the ranking holds min(n, distinct products) pairs, each a product of
\* the filtered set with its sum, in non-increasing order of sum, and no
\* product left out has a larger sum than a product included.
C5_TopNLengthAndOrder ==
  (status = "ok" /\ Rendered("top_products")) =>
    LET tp == page["top_products"]
        rows == Filtered.rows
        products == ProductsOf(rows)
        kept == {tp[i].key : i \in 1..Len(tp)}
    IN /\ Len(tp) = Min(top_n, Cardinality(products))
       /\ Cardinality(kept) = Len(tp)
       /\ kept \subseteq products
       /\ \A i \in 1..Len(tp) :
            tp[i].TotalSales = TotalOf(rows, "Product", tp[i].key)
       /\ \A i \in 1..(Len(tp) - 1) : tp[i].TotalSales >= tp[i + 1].TotalSales
       /\ \A p \in products \ kept : \A i \in 1..Len(tp) :
            TotalOf(rows, "Product", p) <= tp[i].TotalSales

\* C5 witness: three distinct products with different sums, n = 2.
C5_Witness ==
  /\ status = "ok"
  /\ Rendered("top_products")
  /\ top_n = 2
  /\ Cardinality(ProductsOf(Filtered.rows)) = 3
  /\ Len(page["top_products"]) = 2
  /\ page["top_products"][1].TotalSales > page["top_products"][2].TotalSales

\* C6: products with equal sums are ranked by ascending product name, and
\* of products tied across the cut-off the smaller names are kept.
C6_TiesBrokenByName ==
  (status = "ok" /\ Rendered("top_products")) =>
    LET tp == page["top_products"]
        rows == Filtered.rows
        kept == {tp[i].key : i \in 1..Len(tp)}
    IN /\ \A i, j \in 1..Len(tp) :
            (i < j /\ tp[i].TotalSales = tp[j].TotalSales)
              => LexRank(tp[i].key) < LexRank(tp[j].key)
       /\ \A p \in ProductsOf(rows) \ kept : \A i \in 1..Len(tp) :
            TotalOf(rows, "Product", p) = tp[i].TotalSales
              => LexRank(tp[i].key) < LexRank(p)

IsZeroOrBlank(shown) ==
  shown.text = "blank" \/ (shown.text = "digits" /\ shown.scaled = 0)

\* C7: with no record left the average-price KPI shows zero or nothing,
\* and the total-sales and units-sold KPIs show zero.
C7_EmptyKpisShowZero ==
  (status = "ok" /\ Filtered.rows = <<>>) =>
    /\ IsZeroOrBlank(page["kpi"].avg_price)
    /\ page["kpi"].total_sales.text = "digits"
    /\ page["kpi"].total_sales.scaled = 0
    /\ page["kpi"].total_units.text = "digits"
    /\ page["kpi"].total_units.scaled = 0

\* C8: with fewer than two records left the correlation view ends in
\* InsufficientDataError and no matrix is rendered.
C8_CorrelationNeedsTwoRecords ==
  (status # "init" /\ Len(date_range) = 2 /\ df_filtered # 0
     /\ Len(Filtered.rows) < 2) =>
    /\ status = "InsufficientDataError"
    /\ ~Rendered("corr")

\* C9: the source is read at most once, the loaded table always equals the
\* parsed source, and the Period column lives only in a separate copy:
\* neither the loaded table nor the filtered set shown and exported has it.
C9_LoadedTableNeverChanges ==
  /\ loadCount <= 1
  /\ status # "init" =>
       /\ cache = <<Loaded>>
       /\ Loaded.columns = CsvColumns
       /\ Len(Loaded.rows) = Len(source)
       /\ \A i \in 1..Len(source) :
            /\ DOMAIN Loaded.rows[i] = DOMAIN source[i]
            /\ DateOf(Loaded.rows[i]["Date"]) = source[i]["Date"]
            /\ \A c \in DOMAIN source[i] \ {"Date"} :
                 Loaded.rows[i][c] = source[i][c]
  /\ status = "ok" =>
       /\ Filtered.columns = CsvColumns
       /\ \A i \in 1..Len(Filtered.rows) :
            DOMAIN Filtered.rows[i] = Range(CsvColumns)
       /\ df_time \notin {df, df_filtered}
       /\ "Period" \in Range(heap[df_time].columns)
       /\ page["dataframe"].columns = CsvColumns
       /\ page["download"].header = CsvColumns

\* C9 witness: after several interactions, still one read, with a Period
\* column computed over a non-empty filtered set.
C9_Witness ==
  /\ status = "ok"
  /\ loadCount = 1
  /\ level = "Product"
  /\ time_agg = "Day"
  /\ top_n = 2
  /\ Len(Filtered.rows) >= 1
  /\ "Period" \in DOMAIN heap[df_time].rows[1]

\* C10: after every execution the date input holds a start and an end, and
\* the execution reached the filter without an exception.
C10_DateRangeAlwaysHasTwoEnds ==
  status # "init" => (Len(date_range) = 2 /\ status = "ok")
====
